---------------------------- MODULE Spec2Model ----------------------------
(***************************************************************************)
(* A model of the steamid-ng crate (src/src/lib.rs): the 64-bit packed     *)
(* SteamID, its typed fields, its setters, the steam2 / steam3 text        *)
(* parsers and renderers, the FromStr entry point and the serde visitor.   *)
(*                                                                         *)
(* Machine integers keep their width.  A u64 is a tuple of four 16-bit     *)
(* limbs <<w0, w1, w2, w3>>, least significant first; a u32 is a tuple of  *)
(* two limbs.  u8 values and enum discriminants are plain naturals.        *)
(* Text is a sequence of bytes, each written as a one-character string.    *)
(***************************************************************************)
EXTENDS Integers, Sequences, FiniteSets, TLC

VARIABLES sid, call, ncalls

vars == <<sid, call, ncalls>>

(***************************************************************************)
(* Fixed-width arithmetic on limbs                                          *)
(***************************************************************************)
Limb == 2^16

RECURSIVE BitAnd(_, _)
BitAnd(a, b) ==
    IF a = 0 \/ b = 0 THEN 0
    ELSE IF a = b THEN a
    ELSE (IF a % 2 = 1 /\ b % 2 = 1 THEN 1 ELSE 0) + 2 * BitAnd(a \div 2, b \div 2)

RECURSIVE BitOr(_, _)
BitOr(a, b) ==
    IF a = 0 THEN b
    ELSE IF b = 0 \/ a = b THEN a
    ELSE (IF a % 2 = 1 \/ b % 2 = 1 THEN 1 ELSE 0) + 2 * BitOr(a \div 2, b \div 2)

\* limb i (1-based) of v, zero outside v
LimbAt(v, i) == IF i >= 1 /\ i <= Len(v) THEN v[i] ELSE 0

And64(a, b) == <<BitAnd(a[1], b[1]), BitAnd(a[2], b[2]), BitAnd(a[3], b[3]), BitAnd(a[4], b[4])>>
Or64(a, b)  == <<BitOr(a[1], b[1]), BitOr(a[2], b[2]), BitOr(a[3], b[3]), BitOr(a[4], b[4])>>
And32(a, b) == <<BitAnd(a[1], b[1]), BitAnd(a[2], b[2])>>
Or32(a, b)  == <<BitOr(a[1], b[1]), BitOr(a[2], b[2])>>

\* limb i of (v >> n)
ShrLimb(v, n, i) ==
    LET q == n \div 16
        r == n % 16
    IN  (LimbAt(v, i + q) \div 2^r) + (LimbAt(v, i + q + 1) % 2^r) * 2^(16 - r)

\* limb i of (v << n); bits shifted past the width are dropped by the caller's width
ShlLimb(v, n, i) ==
    LET q == n \div 16
        r == n % 16
    IN  (LimbAt(v, i - q) % 2^(16 - r)) * 2^r + (LimbAt(v, i - q - 1) \div 2^(16 - r))

Shr64(v, n) == <<ShrLimb(v, n, 1), ShrLimb(v, n, 2), ShrLimb(v, n, 3), ShrLimb(v, n, 4)>>
Shl64(v, n) == <<ShlLimb(v, n, 1), ShlLimb(v, n, 2), ShlLimb(v, n, 3), ShlLimb(v, n, 4)>>
Shr32(v, n) == <<ShrLimb(v, n, 1), ShrLimb(v, n, 2)>>
Shl32(v, n) == <<ShlLimb(v, n, 1), ShlLimb(v, n, 2)>>

\* casts
U32(n)         == <<n % Limb, (n \div Limb) % Limb>>      \* small natural  as u32
U64(n)         == <<n % Limb, (n \div Limb) % Limb, 0, 0>> \* small natural  as u64
U32asU64(v)    == <<v[1], v[2], 0, 0>>                     \* u32 as u64 (zero extension)
U64asU32(v)    == <<v[1], v[2]>>                           \* u64 as u32 (truncation)
U64asU8(v)     == v[1] % 256                               \* u64 as u8  (truncation)
U32asU8(v)     == v[1] % 256                               \* u32 as u8  (truncation)

\* u32::checked_mul(10) and u32::checked_add(small)
Some(x) == [some |-> TRUE, val |-> x]
None    == [some |-> FALSE, val |-> <<>>]

checked_mul(v, k) ==
    LET p0 == v[1] * k
        p1 == v[2] * k + (p0 \div Limb)
    IN  IF p1 >= Limb THEN None ELSE Some(<<p0 % Limb, p1>>)

checked_add(v, d) ==
    LET s0 == v[1] + d
        s1 == v[2] + (s0 \div Limb)
    IN  IF s1 >= Limb THEN None ELSE Some(<<s0 % Limb, s1>>)

(***************************************************************************)
(* Results                                                                  *)
(***************************************************************************)
SteamIDParseError == "SteamIDParseError"
Ok(x) == [ok |-> TRUE, val |-> x]
Err   == [ok |-> FALSE, val |-> SteamIDParseError]

\* Result::expect / unreachable!(): ok = FALSE of the returned record is the panic
Panicked == [ok |-> FALSE, val |-> "panic"]

(***************************************************************************)
(* digit_from_ascii                                                         *)
(***************************************************************************)
AsciiDigits == {"0", "1", "2", "3", "4", "5", "6", "7", "8", "9"}

DigitValue(byte) ==
    CASE byte = "0" -> 0 [] byte = "1" -> 1 [] byte = "2" -> 2 [] byte = "3" -> 3
      [] byte = "4" -> 4 [] byte = "5" -> 5 [] byte = "6" -> 6 [] byte = "7" -> 7
      [] byte = "8" -> 8 [] byte = "9" -> 9

digit_from_ascii(byte) ==
    IF byte \in AsciiDigits THEN Some(DigitValue(byte)) ELSE None

(***************************************************************************)
(* The closed enumerations                                                  *)
(***************************************************************************)
AccountType ==
    {"Invalid", "Individual", "Multiseat", "GameServer", "AnonGameServer", "Pending",
     "ContentServer", "Clan", "Chat", "ConsoleUser", "AnonUser"}

\* `account_type as u64`
AccountTypeDiscr(t) ==
    CASE t = "Invalid" -> 0 [] t = "Individual" -> 1 [] t = "Multiseat" -> 2
      [] t = "GameServer" -> 3 [] t = "AnonGameServer" -> 4 [] t = "Pending" -> 5
      [] t = "ContentServer" -> 6 [] t = "Clan" -> 7 [] t = "Chat" -> 8
      [] t = "ConsoleUser" -> 9 [] t = "AnonUser" -> 10

AccountType_try_from(value) ==
    CASE value = 0 -> Ok("Invalid") [] value = 1 -> Ok("Individual")
      [] value = 2 -> Ok("Multiseat") [] value = 3 -> Ok("GameServer")
      [] value = 4 -> Ok("AnonGameServer") [] value = 5 -> Ok("Pending")
      [] value = 6 -> Ok("ContentServer") [] value = 7 -> Ok("Clan")
      [] value = 8 -> Ok("Chat") [] value = 9 -> Ok("ConsoleUser")
      [] value = 10 -> Ok("AnonUser") [] OTHER -> Err

Universe == {"Invalid", "Public", "Beta", "Internal", "Dev", "RC"}

\* `universe as u64`
UniverseDiscr(u) ==
    CASE u = "Invalid" -> 0 [] u = "Public" -> 1 [] u = "Beta" -> 2
      [] u = "Internal" -> 3 [] u = "Dev" -> 4 [] u = "RC" -> 5

Universe_try_from(value) ==
    CASE value = 0 -> Ok("Invalid") [] value = 1 -> Ok("Public") [] value = 2 -> Ok("Beta")
      [] value = 3 -> Ok("Internal") [] value = 4 -> Ok("Dev") [] value = 5 -> Ok("RC")
      [] OTHER -> Err

InstanceType == {"All", "Desktop", "Console", "Web"}

\* `instance_type as u32`
InstanceTypeDiscr(t) ==
    CASE t = "All" -> 0 [] t = "Desktop" -> 1 [] t = "Console" -> 2 [] t = "Web" -> 4

\* TryFrom<u32> for InstanceType; value is a u32 in limbs
InstanceType_try_from(value) ==
    CASE value = U32(0) -> Ok("All") [] value = U32(1) -> Ok("Desktop")
      [] value = U32(2) -> Ok("Console") [] value = U32(4) -> Ok("Web")
      [] OTHER -> Err

InstanceFlags == {"None", "Clan", "Lobby", "MMSLobby"}

\* `flags as u32`
InstanceFlagsDiscr(f) ==
    CASE f = "None" -> 0 [] f = "Clan" -> 128 [] f = "Lobby" -> 64 [] f = "MMSLobby" -> 32

\* TryFrom<u8> for InstanceFlags
InstanceFlags_try_from(value) ==
    CASE value = 0 -> Ok("None") [] value = 128 -> Ok("Clan") [] value = 64 -> Ok("Lobby")
      [] value = 32 -> Ok("MMSLobby") [] OTHER -> Err


(***************************************************************************)
(* Instance: a u32 holding the instance type in bits 0-11 and the flags in *)
(* bits 12-19                                                               *)
(***************************************************************************)
Instance_new(instance_type, flags) ==
    Or32(U32(InstanceTypeDiscr(instance_type)), Shl32(U32(InstanceFlagsDiscr(flags)), 12))

\* match self.0 & 0xFFF
Instance_instance_type(self) ==
    LET v == And32(self, <<\hFFF, 0>>)
    IN  CASE v = U32(0) -> Ok("All") [] v = U32(1) -> Ok("Desktop")
          [] v = U32(2) -> Ok("Console") [] v = U32(4) -> Ok("Web")
          [] OTHER -> Panicked

\* self.0 &= 0xFF000; self.0 |= instance_type as u32
Instance_set_instance_type(self, instance_type) ==
    Or32(And32(self, <<\hF000, \hF>>), U32(InstanceTypeDiscr(instance_type)))

\* match self.0 >> 12
Instance_flags(self) ==
    LET v == Shr32(self, 12)
    IN  CASE v = U32(0) -> Ok("None") [] v = U32(128) -> Ok("Clan")
          [] v = U32(64) -> Ok("Lobby") [] v = U32(32) -> Ok("MMSLobby")
          [] OTHER -> Panicked

\* self.0 &= 0x00FFF; self.0 |= (flags as u32) << 12
Instance_set_flags(self, flags) ==
    Or32(And32(self, <<\hFFF, 0>>), Shl32(U32(InstanceFlagsDiscr(flags)), 12))

\* TryFrom<u32> for Instance
Instance_try_from(value) ==
    IF ~InstanceType_try_from(And32(value, <<\hFFF, 0>>)).ok THEN Err
    ELSE IF ~InstanceFlags_try_from(U32asU8(Shr32(value, 12))).ok THEN Err
    ELSE Ok(value)

(***************************************************************************)
(* SteamID: the packed u64                                                  *)
(***************************************************************************)
\* SteamID::new with the account type shifted to bit 48 instead of bit 52
SteamID_new_shift48(account_id, instance, account_type, universe) ==
    Or64(Or64(Or64(U32asU64(account_id),
                   Shl64(U32asU64(instance), 32)),
              Shl64(U64(AccountTypeDiscr(account_type)), 48)),
         Shl64(U64(UniverseDiscr(universe)), 56))

SteamID_new(account_id, instance, account_type, universe) ==
    Or64(Or64(Or64(U32asU64(account_id),
                   Shl64(U32asU64(instance), 32)),
              Shl64(U64(AccountTypeDiscr(account_type)), 52)),
         Shl64(U64(UniverseDiscr(universe)), 56))

\* #[derive(Default)] on SteamID(u64)
SteamID_default == <<0, 0, 0, 0>>

\* (self.0 & 0xFFFFFFFF) as u32
account_id(self) == U64asU32(And64(self, <<\hFFFF, \hFFFF, 0, 0>>))

\* self.0 &= 0xFFFFFFFF00000000; self.0 |= account_id as u64
set_account_id(self, id) ==
    Or64(And64(self, <<0, 0, \hFFFF, \hFFFF>>), U32asU64(id))

\* Instance::try_from(((self.0 >> 32) & 0xFFFFF) as u32).expect(..)
instance(self) ==
    LET r == Instance_try_from(U64asU32(And64(Shr64(self, 32), <<\hFFFF, \hF, 0, 0>>)))
    IN  IF r.ok THEN r ELSE Panicked

\* self.0 &= 0xFFF00000FFFFFFFF; self.0 |= (instance.0 as u64) << 32
set_instance(self, inst) ==
    Or64(And64(self, <<\hFFFF, \hFFFF, 0, \hFFF0>>), Shl64(U32asU64(inst), 32))

\* the setters that read self.instance() first; ok = FALSE is the expect panic
set_instance_type(self, instance_type) ==
    LET r == instance(self)
    IN  IF ~r.ok THEN Panicked
        ELSE Ok(set_instance(self, Instance_set_instance_type(r.val, instance_type)))

set_instance_flags(self, instance_flags) ==
    LET r == instance(self)
    IN  IF ~r.ok THEN Panicked
        ELSE Ok(set_instance(self, Instance_set_flags(r.val, instance_flags)))

\* AccountType::try_from(((self.0 >> 52) & 0xF) as u8).expect(..)
account_type(self) ==
    LET r == AccountType_try_from(U64asU8(And64(Shr64(self, 52), <<\hF, 0, 0, 0>>)))
    IN  IF r.ok THEN r ELSE Panicked

\* self.0 &= 0xFF0FFFFFFFFFFFFF; self.0 |= (account_type as u64) << 52
set_account_type(self, t) ==
    Or64(And64(self, <<\hFFFF, \hFFFF, \hFFFF, \hFF0F>>), Shl64(U64(AccountTypeDiscr(t)), 52))

\* Universe::try_from(((self.0 >> 56) & 0xFF) as u8).expect(..)
universe(self) ==
    LET r == Universe_try_from(U64asU8(And64(Shr64(self, 56), <<\hFF, 0, 0, 0>>)))
    IN  IF r.ok THEN r ELSE Panicked

\* self.0 &= 0x00FFFFFFFFFFFFFF; self.0 |= (universe as u64) << 56
set_universe(self, u) ==
    Or64(And64(self, <<\hFFFF, \hFFFF, \hFFFF, \hFF>>), Shl64(U64(UniverseDiscr(u)), 56))

steam64(self) == self

\* TryFrom<u64> for SteamID without the validation of the universe byte
SteamID_try_from_no_universe(value) ==
    IF ~Instance_try_from(U64asU32(And64(Shr64(value, 32), <<\hFFFF, \hF, 0, 0>>))).ok THEN Err
    ELSE IF ~AccountType_try_from(U64asU8(And64(Shr64(value, 52), <<\hF, 0, 0, 0>>))).ok THEN Err
    ELSE Ok(value)

\* TryFrom<u64> for SteamID
SteamID_try_from(value) ==
    IF ~Instance_try_from(U64asU32(And64(Shr64(value, 32), <<\hFFFF, \hF, 0, 0>>))).ok THEN Err
    ELSE IF ~AccountType_try_from(U64asU8(And64(Shr64(value, 52), <<\hF, 0, 0, 0>>))).ok THEN Err
    ELSE IF ~Universe_try_from(U64asU8(And64(Shr64(value, 56), <<\hFF, 0, 0, 0>>))).ok THEN Err
    ELSE Ok(value)

from_steam64(value) == SteamID_try_from(value)

(***************************************************************************)
(* Text: byte iterators, decimal rendering                                  *)
(***************************************************************************)
\* Iterator::next at position i of bytes
ByteAt(bytes, i) == IF i >= 1 /\ i <= Len(bytes) THEN Some(bytes[i]) ELSE None

\* bytes.next() == Some(b)
NextIs(bytes, i, b) == ByteAt(bytes, i).some /\ ByteAt(bytes, i).val = b

BytesFrom(bytes, i) == SubSeq(bytes, i, Len(bytes))

\* str::strip_prefix
strip_prefix(text, prefix) ==
    IF Len(text) >= Len(prefix) /\ SubSeq(text, 1, Len(prefix)) = prefix
    THEN Some(BytesFrom(text, Len(prefix) + 1))
    ELSE None

DigitChar(d) ==
    CASE d = 0 -> "0" [] d = 1 -> "1" [] d = 2 -> "2" [] d = 3 -> "3" [] d = 4 -> "4"
      [] d = 5 -> "5" [] d = 6 -> "6" [] d = 7 -> "7" [] d = 8 -> "8" [] d = 9 -> "9"

\* the limbs i..Len(v) of v, read as a number, modulo 10
RECURSIVE Rem10(_, _)
Rem10(v, i) == IF i > Len(v) THEN 0 ELSE (Rem10(v, i + 1) * Limb + v[i]) % 10

\* v divided by 10, limb by limb
Quot10(v) == [i \in 1..Len(v) |-> (Rem10(v, i + 1) * Limb + v[i]) \div 10]

\* Display for u32 / u64: decimal digits, no leading zeros
RECURSIVE to_string(_)
to_string(v) ==
    LET q == Quot10(v)
        d == DigitChar(Rem10(v, 1))
    IN  IF \A i \in 1..Len(q) : q[i] = 0 THEN <<d>> ELSE to_string(q) \o <<d>>

(***************************************************************************)
(* steam2                                                                   *)
(***************************************************************************)
\* steam2() printing the whole account id where the code prints id >> 1
steam2_no_shift(self) ==
    LET t == account_type(self)
    IN  IF ~t.ok THEN Panicked
        ELSE IF t.val \in {"Individual", "Invalid"}
        THEN LET id == account_id(self)
                 u  == universe(self)
             IN  IF ~u.ok THEN Panicked
                 ELSE Ok(<<"S", "T", "E", "A", "M", "_">> \o to_string(U64(UniverseDiscr(u.val)))
                         \o <<":">> \o to_string(And32(id, <<1, 0>>))
                         \o <<":">> \o to_string(id))
        ELSE Ok(to_string(self))

\* format!("STEAM_{}:{}:{}", self.universe() as u64, id & 1, id >> 1), or self.0.to_string();
\* ok = FALSE is the panic of an accessor's expect
steam2(self) ==
    LET t == account_type(self)
    IN  IF ~t.ok THEN Panicked
        ELSE IF t.val \in {"Individual", "Invalid"}
        THEN LET id == account_id(self)
                 u  == universe(self)
             IN  IF ~u.ok THEN Panicked
                 ELSE Ok(<<"S", "T", "E", "A", "M", "_">> \o to_string(U64(UniverseDiscr(u.val)))
                         \o <<":">> \o to_string(And32(id, <<1, 0>>))
                         \o <<":">> \o to_string(Shr32(id, 1)))
        ELSE Ok(to_string(self))

\* for b in bytes { account_id = account_id.checked_mul(10).and_then(checked_add(digit))? }
RECURSIVE steam2_digits(_, _, _)
steam2_digits(acc, bytes, i) ==
    IF i > Len(bytes) THEN Ok(acc)
    ELSE LET d == digit_from_ascii(bytes[i])
         IN  IF ~d.some THEN Err
             ELSE LET m == checked_mul(acc, 10)
                  IN  IF ~m.some THEN Err
                      ELSE LET a == checked_add(m.val, d.val)
                           IN  IF ~a.some THEN Err
                               ELSE steam2_digits(a.val, bytes, i + 1)

\* from_steam2 without the rewrite of universe 0
coerce_universe_off(u) == u

\* if let Universe::Invalid = universe { universe = Universe::Public; }
coerce_universe(u) == IF u = "Invalid" THEN "Public" ELSE u

from_steam2(text) ==
    LET chunk == strip_prefix(text, <<"S", "T", "E", "A", "M", "_">>)
    IN  IF ~chunk.some THEN Err
        ELSE
        LET bytes == chunk.val
            ud    == IF ByteAt(bytes, 1).some THEN digit_from_ascii(bytes[1]) ELSE None
            ur    == IF ud.some THEN Universe_try_from(ud.val) ELSE Err
        IN  IF ~ur.ok THEN Err
            ELSE
            LET univ == coerce_universe(ur.val)
            IN  IF ~NextIs(bytes, 2, ":") THEN Err
                ELSE IF ~ByteAt(bytes, 3).some THEN Err
                ELSE IF bytes[3] \notin {"0", "1"} THEN Err
                ELSE
                LET auth_server == IF bytes[3] = "0" THEN U32(0) ELSE U32(1)
                IN  IF ~NextIs(bytes, 4, ":") THEN Err
                    ELSE
                    LET rest  == BytesFrom(bytes, 5)
                        first == IF ByteAt(rest, 1).some THEN digit_from_ascii(rest[1]) ELSE None
                    IN  IF Len(rest) > 10 THEN Err
                        ELSE IF ~first.some THEN Err
                        ELSE
                        LET n == steam2_digits(U32(first.val), rest, 2)
                        IN  IF ~n.ok THEN Err
                            ELSE Ok(SteamID_new(Or32(Shl32(n.val, 1), auth_server),
                                                Instance_new("Desktop", "None"),
                                                "Individual", univ))

(***************************************************************************)
(* steam3                                                                   *)
(***************************************************************************)
account_type_to_char(t, flags) ==
    CASE t = "Invalid" -> "I" [] t = "Individual" -> "U" [] t = "Multiseat" -> "M"
      [] t = "GameServer" -> "G" [] t = "AnonGameServer" -> "A" [] t = "Pending" -> "P"
      [] t = "ContentServer" -> "C" [] t = "Clan" -> "g"
      [] t = "Chat" -> (CASE flags = "Clan" -> "c" [] flags = "Lobby" -> "L" [] OTHER -> "T")
      [] t = "ConsoleUser" -> "U" [] t = "AnonUser" -> "a"

\* char_to_account_type with 'c' read as a lobby chat
char_to_account_type_c_lobby(c) ==
    CASE c = "U" -> Some(<<"Individual", "None">>) [] c = "M" -> Some(<<"Multiseat", "None">>)
      [] c = "G" -> Some(<<"GameServer", "None">>) [] c = "A" -> Some(<<"AnonGameServer", "None">>)
      [] c = "P" -> Some(<<"Pending", "None">>) [] c = "C" -> Some(<<"ContentServer", "None">>)
      [] c = "g" -> Some(<<"Clan", "None">>) [] c = "T" -> Some(<<"Chat", "None">>)
      [] c = "c" -> Some(<<"Chat", "Lobby">>) [] c = "L" -> Some(<<"Chat", "Lobby">>)
      [] c = "a" -> Some(<<"AnonUser", "None">>)
      [] c \in {"I", "i"} -> Some(<<"Invalid", "None">>)
      [] OTHER -> None

char_to_account_type(c) ==
    CASE c = "U" -> Some(<<"Individual", "None">>) [] c = "M" -> Some(<<"Multiseat", "None">>)
      [] c = "G" -> Some(<<"GameServer", "None">>) [] c = "A" -> Some(<<"AnonGameServer", "None">>)
      [] c = "P" -> Some(<<"Pending", "None">>) [] c = "C" -> Some(<<"ContentServer", "None">>)
      [] c = "g" -> Some(<<"Clan", "None">>) [] c = "T" -> Some(<<"Chat", "None">>)
      [] c = "c" -> Some(<<"Chat", "Clan">>) [] c = "L" -> Some(<<"Chat", "Lobby">>)
      [] c = "a" -> Some(<<"AnonUser", "None">>)
      [] c \in {"I", "i"} -> Some(<<"Invalid", "None">>)
      [] OTHER -> None

\* render_instance without the Individual arm
render_instance_servers_only(t, instance_type) == t \in {"AnonGameServer", "Multiseat"}

\* whether steam3() appends the instance segment
render_instance(t, instance_type) ==
    CASE t \in {"AnonGameServer", "Multiseat"} -> TRUE
      [] t = "Individual" -> instance_type # "Desktop"
      [] OTHER -> FALSE

steam3(self) ==
    LET t    == account_type(self)
        inst == instance(self)
    IN  IF ~t.ok \/ ~inst.ok THEN Panicked
        ELSE
        LET it == Instance_instance_type(inst.val)
            fl == Instance_flags(inst.val)
        IN  IF ~it.ok \/ ~fl.ok THEN Panicked
            ELSE
            LET u    == universe(self)
                head == <<"[", account_type_to_char(t.val, fl.val), ":">>
            IN  IF ~u.ok THEN Panicked
                ELSE IF render_instance(t.val, it.val)
                THEN Ok(head \o to_string(U64(UniverseDiscr(u.val))) \o <<":">>
                        \o to_string(account_id(self)) \o <<":">>
                        \o to_string(inst.val) \o <<"]">>)
                ELSE Ok(head \o to_string(U64(UniverseDiscr(u.val))) \o <<":">>
                        \o to_string(account_id(self)) \o <<"]">>)

\* while let Some(digit) = bytes.peek().copied().and_then(digit_from_ascii) { .. }:
\* consumes digits from position i on; pos is the first position not consumed
RECURSIVE steam3_digits(_, _, _)
steam3_digits(acc, bytes, i) ==
    LET d == IF ByteAt(bytes, i).some THEN digit_from_ascii(bytes[i]) ELSE None
    IN  IF ~d.some THEN [ok |-> TRUE, val |-> acc, pos |-> i]
        ELSE LET m == checked_mul(acc, 10)
             IN  IF ~m.some THEN [ok |-> FALSE, val |-> acc, pos |-> i]
                 ELSE LET a == checked_add(m.val, d.val)
                      IN  IF ~a.some THEN [ok |-> FALSE, val |-> acc, pos |-> i]
                          ELSE steam3_digits(a.val, bytes, i + 1)

\* the match without its (Some(_), Clan | Chat) arm
resolve_instance_type_unforced(maybe_instance_type, t) ==
    CASE ~maybe_instance_type.some /\ t = "Individual" -> "Desktop"
      [] ~maybe_instance_type.some /\ t # "Individual" -> "All"
      [] OTHER -> maybe_instance_type.val

\* match (maybe_instance_type, account_type)
resolve_instance_type(maybe_instance_type, t) ==
    CASE ~maybe_instance_type.some /\ t = "Individual" -> "Desktop"
      [] ~maybe_instance_type.some /\ t # "Individual" -> "All"
      [] maybe_instance_type.some /\ t \in {"Clan", "Chat"} -> "All"
      [] OTHER -> maybe_instance_type.val

\* the tail of from_steam3 without the test that ']' is the last byte
from_steam3_tail_open(bytes, i, id, t, flags, univ) ==
    LET has == NextIs(bytes, i, ":")
        fd  == IF ByteAt(bytes, i + 1).some THEN digit_from_ascii(bytes[i + 1]) ELSE None
        acc == IF has /\ fd.some THEN steam3_digits(U32(fd.val), bytes, i + 2)
               ELSE [ok |-> FALSE, val |-> U32(0), pos |-> i]
        it  == IF has /\ fd.some /\ acc.ok THEN InstanceType_try_from(acc.val) ELSE Err
    IN  IF has /\ ~fd.some THEN Err
        ELSE IF has /\ ~acc.ok THEN Err
        ELSE IF has /\ ~it.ok THEN Err
        ELSE
        LET maybe == IF has THEN Some(it.val) ELSE None
            itype == resolve_instance_type(maybe, t)
            j     == IF has THEN acc.pos ELSE i
        IN  IF ~NextIs(bytes, j, "]") THEN Err
            ELSE Ok(SteamID_new(id, Instance_new(itype, flags), t, univ))

\* the tail of from_steam3 once the account number is read: bytes from position i on
from_steam3_tail(bytes, i, id, t, flags, univ) ==
    LET has == NextIs(bytes, i, ":")
        fd  == IF ByteAt(bytes, i + 1).some THEN digit_from_ascii(bytes[i + 1]) ELSE None
        acc == IF has /\ fd.some THEN steam3_digits(U32(fd.val), bytes, i + 2)
               ELSE [ok |-> FALSE, val |-> U32(0), pos |-> i]
        it  == IF has /\ fd.some /\ acc.ok THEN InstanceType_try_from(acc.val) ELSE Err
    IN  IF has /\ ~fd.some THEN Err
        ELSE IF has /\ ~acc.ok THEN Err
        ELSE IF has /\ ~it.ok THEN Err
        ELSE
        LET maybe == IF has THEN Some(it.val) ELSE None
            itype == resolve_instance_type(maybe, t)
            j     == IF has THEN acc.pos ELSE i
        IN  IF ~NextIs(bytes, j, "]") \/ ByteAt(bytes, j + 1).some THEN Err
            ELSE Ok(SteamID_new(id, Instance_new(itype, flags), t, univ))

from_steam3(bytes) ==
    IF ~NextIs(bytes, 1, "[") THEN Err
    ELSE
    LET tf == IF ByteAt(bytes, 2).some THEN char_to_account_type(bytes[2]) ELSE None
    IN  IF ~tf.some THEN Err
        ELSE IF ~NextIs(bytes, 3, ":") THEN Err
        ELSE
        LET ud == IF ByteAt(bytes, 4).some THEN digit_from_ascii(bytes[4]) ELSE None
            ur == IF ud.some THEN Universe_try_from(ud.val) ELSE Err
        IN  IF ~ur.ok THEN Err
            ELSE IF ~NextIs(bytes, 5, ":") THEN Err
            ELSE
            LET first == IF ByteAt(bytes, 6).some THEN digit_from_ascii(bytes[6]) ELSE None
            IN  IF ~first.some THEN Err
                ELSE
                LET n == steam3_digits(U32(first.val), bytes, 7)
                IN  IF ~n.ok THEN Err
                    ELSE from_steam3_tail(bytes, n.pos, n.val, tf.val[1], tf.val[2], ur.val)

(***************************************************************************)
(* FromStr and the serde visitor                                            *)
(***************************************************************************)
\* u64::checked_mul(10) followed by u64::checked_add(digit)
checked_mul_add64(v, k, d) ==
    LET c0 == v[1] * k + d
        c1 == v[2] * k + (c0 \div Limb)
        c2 == v[3] * k + (c1 \div Limb)
        c3 == v[4] * k + (c2 \div Limb)
    IN  IF c3 >= Limb THEN None ELSE Some(<<c0 % Limb, c1 % Limb, c2 % Limb, c3>>)

\* the digit loop of str::parse::<u64>(): any other byte, or an overflow, is an Err
RECURSIVE parse_u64_digits(_, _, _)
parse_u64_digits(acc, bytes, i) ==
    IF i > Len(bytes) THEN Ok(acc)
    ELSE LET d == digit_from_ascii(bytes[i])
         IN  IF ~d.some THEN Err
             ELSE LET a == checked_mul_add64(acc, 10, d.val)
                  IN  IF ~a.some THEN Err ELSE parse_u64_digits(a.val, bytes, i + 1)

\* s.parse::<u64>(): decimal digits after an optional '+', at least one digit
parse_u64(s) ==
    LET digits == IF NextIs(s, 1, "+") THEN BytesFrom(s, 2) ELSE s
    IN  IF Len(digits) = 0 THEN Err ELSE parse_u64_digits(<<0, 0, 0, 0>>, digits, 1)

\* from_str without its third attempt
from_str_no_steam3(s) ==
    LET u == parse_u64(s)
    IN  IF u.ok THEN SteamID_try_from(u.val)
        ELSE IF from_steam2(s).ok THEN from_steam2(s)
        ELSE Err

\* impl FromStr for SteamID
from_str(s) ==
    LET u == parse_u64(s)
    IN  IF u.ok THEN SteamID_try_from(u.val)
        ELSE IF from_steam2(s).ok THEN from_steam2(s)
        ELSE IF from_steam3(s).ok THEN from_steam3(s)
        ELSE Err

\* E::custom(format!("invalid SteamID: {}", value))
de_Error_custom(text) ==
    [ok |-> FALSE,
     val |-> <<"i", "n", "v", "a", "l", "i", "d", " ", "S", "t", "e", "a", "m", "I", "D", ":", " ">>
             \o text]

\* a visit_u64 that converts the integer without validating it
visit_u64_into(value) == Ok(value)

\* SteamIDVisitor::visit_u64
visit_u64(value) ==
    LET r == SteamID_try_from(value)
    IN  IF r.ok THEN r ELSE de_Error_custom(to_string(value))

\* SteamIDVisitor::visit_str
visit_str(value) ==
    LET r == from_str(value)
    IN  IF r.ok THEN r ELSE de_Error_custom(value)

(***************************************************************************)
(* Inputs the calls are made with                                           *)
(***************************************************************************)
\* how many setter calls follow the construction of the identifier
MaxSetterCalls == 1
\* leading zeros put in front of a decimal numeral in a text input: 0..MaxPad
MaxPad == 1
\* bits 20.. of a raw u32 handed to Instance::try_from: 0..MaxRawHigh
MaxRawHigh == 1
\* account-type nibble and universe byte of a raw u64: 0..MaxRawAccountType, 0..MaxRawUniverse
MaxRawAccountType == 12
MaxRawUniverse == 6

AccountIdInputs == {U32(1234), <<\hFFFF, \hFFFF>>}

\* the low 20 bits of raw instance values: every legal pair, instance type 3, two flags set
RawInstanceLow ==
    {Instance_new(t, f) : t \in InstanceType, f \in InstanceFlags} \cup {U32(3), <<0, 6>>, <<\h1001, 0>>}

\* raw u32 values: the 20-bit values above, and two legal ones with bits 20.. set as well
RawInstanceInputs ==
    RawInstanceLow \cup
    {Or32(lo, Shl32(U32(h), 20)) :
        lo \in {Instance_new("All", "None"), Instance_new("Console", "Lobby")},
        h \in 0..MaxRawHigh}

\* every Instance a caller can hold: Instance::new(..) or a successful Instance::try_from(..)
InstanceInputs ==
    {Instance_new(t, f) : t \in InstanceType, f \in InstanceFlags}
        \cup {raw \in RawInstanceInputs : Instance_try_from(raw).ok}

RawSteam64Inputs ==
    {Or64(Or64(U32asU64(a), Shl64(U32asU64(lo), 32)),
          Or64(Shl64(U64(t), 52), Shl64(U64(u), 56))) :
        a \in {U32(12345)}, lo \in RawInstanceLow,
        t \in 0..MaxRawAccountType, u \in 0..MaxRawUniverse}

RECURSIVE Zeros(_)
Zeros(k) == IF k = 0 THEN <<>> ELSE <<"0">> \o Zeros(k - 1)

Numerals ==
    {<<"0">>, <<"7">>, <<"1", "2", "3">>, <<"4", "4", "9", "1", "9", "9", "0">>,
     <<"2", "1", "4", "7", "4", "8", "3", "6", "4", "7">>,
     <<"2", "1", "4", "7", "4", "8", "3", "6", "4", "8">>,
     <<"3", "0", "0", "0", "0", "0", "0", "0", "0", "0">>,
     <<"4", "2", "9", "4", "9", "6", "7", "2", "9", "5">>,
     <<"4", "2", "9", "4", "9", "6", "7", "2", "9", "6">>,
     <<"9", "9", "9", "9", "9", "9", "9", "9", "9", "9">>}

PaddedNumerals == {Zeros(k) \o n : k \in 0..MaxPad, n \in Numerals}

\* a text cut after each of its bytes (the whole text included)
Prefixes(text) == {SubSeq(text, 1, k) : k \in 0..Len(text)}

\* a byte above 0x7F, written by its hexadecimal code
NonAsciiByte == "xC3"

Steam2Truncated == Prefixes(<<"S", "T", "E", "A", "M", "_", "1", ":", "1", ":", "4", "2">>)

Steam2NonAscii ==
    {<<"S", "T", "E", "A", "M", "_", "1", ":", "0", ":", "7">> \o <<NonAsciiByte>>,
     <<"S", "T", "E", "A", "M", "_">> \o <<NonAsciiByte>> \o <<":", "0", ":", "7">>,
     <<NonAsciiByte>> \o <<"S", "T", "E", "A", "M", "_", "1", ":", "0", ":", "7">>}

Steam3Truncated == Prefixes(<<"[", "U", ":", "1", ":", "4", "2", ":", "4", "]">>)

Steam3NonAscii ==
    {<<"[", "U", ":", "1", ":", "4", "2">> \o <<NonAsciiByte>> \o <<"]">>,
     <<"[", NonAsciiByte>> \o <<":", "1", ":", "4", "2", "]">>,
     <<"[", "U", ":", "1", ":", "4", "2", "]">> \o <<NonAsciiByte>>}

Steam2Malformed ==
    {<<>>, <<"S", "T", "E", "A", "M">>, <<"S", "T", "E", "A", "M", "_">>,
     <<"S", "T", "E", "A", "M", "_", "1">>, <<"S", "T", "E", "A", "M", "_", "1", ":">>,
     <<"S", "T", "E", "A", "M", "_", "1", ":", "0">>,
     <<"S", "T", "E", "A", "M", "_", "1", ":", "0", ":">>,
     <<"S", "T", "E", "A", "M", "_", "1", ";", "0", ":", "7">>,
     <<"S", "T", "E", "A", "M", "_", "1", ":", "0", ";", "7">>,
     <<"S", "T", "E", "A", "M", "_", "1", ":", "0", ":", "7", "a">>,
     <<"S", "T", "E", "A", "M", "_", "1", ":", "0", ":", "a", "7">>,
     <<"s", "t", "e", "a", "m", "_", "1", ":", "0", ":", "7">>,
     <<"S", "T", "E", "A", "M", "_", "b", "o", "g", "u", "s", ":", "b", "o", "g", "u", "s",
       ":", "b", "o", "g", "u", "s">>}

Steam2Inputs ==
    {<<"S", "T", "E", "A", "M", "_", u, ":", a, ":">> \o n :
        u \in {"0", "1", "2", "4", "5", "6", "9"}, a \in {"0", "1", "2"}, n \in PaddedNumerals}
        \cup Steam2Malformed \cup Steam2Truncated \cup Steam2NonAscii

Steam3Suffixes ==
    {<<>>, <<":", "0">>, <<":", "1">>, <<":", "2">>, <<":", "4">>, <<":", "3">>, <<":">>,
     <<":", "0", "4">>, <<":", "1", "6">>,
     <<":", "4", "2", "9", "4", "9", "6", "7", "2", "9", "7">>}

Steam3Numerals ==
    {<<"1", "2", "3">>, <<"4", "2", "9", "4", "9", "6", "7", "2", "9", "5">>,
     <<"4", "2", "9", "4", "9", "6", "7", "2", "9", "6">>}

Steam3Malformed ==
    {<<>>, <<"[">>, <<"[", "U">>, <<"[", "U", ":", "1", ":", "]">>,
     <<"[", "U", ":", "1", ":", "7">>, <<"[", "U", ":", "1", ":", "7", "]", "]">>,
     <<"[", "U", ":", "1", ":", "7", ":", "2", "]", "x">>,
     <<"[", "U", ";", "1", ":", "7", "]">>, <<"[", "U", ":", "1", ";", "7", "]">>,
     <<"U", ":", "1", ":", "7", "]">>,
     <<"[", "b", "o", "g", "u", "s", ":", "b", "o", "g", "u", "s", ":", "b", "o", "g", "u", "s",
       "]">>}

Steam3Inputs ==
    {<<"[", c, ":", u, ":">> \o Zeros(k) \o n \o sfx \o <<"]">> :
        c \in {"U", "M", "G", "A", "P", "C", "g", "T", "c", "L", "a", "I", "i", "x", "u"},
        u \in {"0", "2", "5", "6"}, k \in 0..MaxPad, n \in Steam3Numerals,
        sfx \in Steam3Suffixes}
        \cup Steam3Malformed \cup Steam3Truncated \cup Steam3NonAscii

\* the decimal text of the raw 64-bit values
Steam64Texts == {to_string(v) : v \in RawSteam64Inputs}

\* texts of digits that str::parse takes or refuses on its own terms: a sign, the
\* largest u64 and its successor, no digit at all, a blank, a hexadecimal prefix
DecimalOddities ==
    {<<"+">>, <<"+", "7">>, <<"-", "7">>, <<"7", " ">>, <<"0", "x", "7">>,
     <<"+">> \o <<"1", "0", "3", "5", "8", "2", "7", "9", "1", "4", "3", "2", "2", "9", "4", "0", "7", "6">>,
     <<"1", "8", "4", "4", "6", "7", "4", "4", "0", "7", "3", "7", "0", "9", "5", "5", "1", "6", "1", "5">>,
     <<"1", "8", "4", "4", "6", "7", "4", "4", "0", "7", "3", "7", "0", "9", "5", "5", "1", "6", "1", "6">>,
     <<"9", "9", "9", "9", "9", "9", "9", "9", "9", "9", "9", "9", "9", "9", "9", "9", "9", "9", "9", "9">>}

FromStrInputs ==
    Steam64Texts \cup PaddedNumerals \cup DecimalOddities \cup Steam2Inputs \cup Steam3Inputs

(***************************************************************************)
(* The state machine: one SteamID variable of a caller, and the last call  *)
(* made on it.  The caller constructs the identifier, calls setters on it  *)
(* and then renders it.                                                     *)
(*   sid    - the identifier the caller holds (the packed u64)             *)
(*   call   - the last call: its name, its input, whether it returned      *)
(*            (Ok / no panic), and the text it produced                    *)
(*   ncalls - the number of setter calls made so far                       *)
(***************************************************************************)
Call(op, input, ok, out) == [op |-> op, input |-> input, ok |-> ok, out |-> out]

Setters ==
    {"set_account_id", "set_instance", "set_instance_type", "set_instance_flags",
     "set_account_type", "set_universe"}

\* after a constructor's Err the caller holds no identifier, and a panic unwinds the
\* caller: in both cases nothing more is called
Ended == ~call.ok

Init ==
    /\ sid = SteamID_default
    /\ call = Call("default", <<>>, TRUE, <<>>)
    /\ ncalls = 0

\* let s = SteamID::new(account_id, instance, account_type, universe)
New ==
    /\ call.op = "default"
    /\ \E a \in AccountIdInputs, inst \in InstanceInputs, t \in AccountType, u \in Universe :
          /\ sid' = SteamID_new(a, inst, t, u)
          /\ call' = Call("new", [account_id |-> a, instance |-> inst,
                                  account_type |-> t, universe |-> u], TRUE, <<>>)
    /\ UNCHANGED ncalls

\* a constructor returning Result: on Err no identifier is made
Construct(op, input, r) ==
    /\ sid' = IF r.ok THEN r.val ELSE sid
    /\ call' = Call(op, input, r.ok, <<>>)
    /\ UNCHANGED ncalls

FromSteam64 ==
    /\ call.op = "default"
    /\ \E value \in RawSteam64Inputs : Construct("from_steam64", value, from_steam64(value))

FromSteam2 ==
    /\ call.op = "default"
    /\ \E text \in Steam2Inputs : Construct("from_steam2", text, from_steam2(text))

FromSteam3 ==
    /\ call.op = "default"
    /\ \E text \in Steam3Inputs : Construct("from_steam3", text, from_steam3(text))

\* let s: SteamID = text.parse()
FromStr ==
    /\ call.op = "default"
    /\ \E text \in FromStrInputs : Construct("from_str", text, from_str(text))

\* deserializer.deserialize_any(SteamIDVisitor) on an integer
VisitU64 ==
    /\ call.op = "default"
    /\ \E value \in RawSteam64Inputs : Construct("visit_u64", value, visit_u64(value))

\* deserializer.deserialize_any(SteamIDVisitor) on a string
VisitStr ==
    /\ call.op = "default"
    /\ \E text \in FromStrInputs : Construct("visit_str", text, visit_str(text))

\* a setter call: r is the new value of the identifier, or the panic
Set(op, input, r) ==
    /\ ~Ended
    /\ call.op \notin {"steam2", "steam3"}
    /\ ncalls < MaxSetterCalls
    /\ sid' = IF r.ok THEN r.val ELSE sid
    /\ call' = Call(op, input, r.ok, <<>>)
    /\ ncalls' = ncalls + 1

SetAccountId == \E a \in AccountIdInputs : Set("set_account_id", a, Ok(set_account_id(sid, a)))

SetInstance == \E inst \in InstanceInputs : Set("set_instance", inst, Ok(set_instance(sid, inst)))

SetInstanceType == \E t \in InstanceType : Set("set_instance_type", t, set_instance_type(sid, t))

SetInstanceFlags == \E f \in InstanceFlags : Set("set_instance_flags", f, set_instance_flags(sid, f))

SetAccountType == \E t \in AccountType : Set("set_account_type", t, Ok(set_account_type(sid, t)))

SetUniverse == \E u \in Universe : Set("set_universe", u, Ok(set_universe(sid, u)))

\* a rendering call: the identifier is read, the text (or the panic) is recorded
Render(op, r) ==
    /\ ~Ended
    /\ call' = Call(op, sid, r.ok, IF r.ok THEN r.val ELSE <<>>)
    /\ UNCHANGED <<sid, ncalls>>

Steam2 == Render("steam2", steam2(sid))

Steam3 == Render("steam3", steam3(sid))

Next ==
    \/ New
    \/ FromSteam64
    \/ FromSteam2
    \/ FromSteam3
    \/ FromStr
    \/ VisitU64
    \/ VisitStr
    \/ SetAccountId
    \/ SetInstance
    \/ SetInstanceType
    \/ SetInstanceFlags
    \/ SetAccountType
    \/ SetUniverse
    \/ Steam2
    \/ Steam3

Spec == Init /\ [][Next]_vars

(***************************************************************************)
(* Properties.  The bit fields are read here straight from the limbs:      *)
(* bits 32-43 and 44-47 lie in w2, bits 48-51, 52-55 and 56-63 in w3.      *)
(***************************************************************************)
InstanceTypeBits(v)  == v[3] % 2^12
InstanceFlagsBits(v) == (v[3] \div 2^12) + (v[4] % 2^4) * 2^4
AccountTypeBits(v)   == (v[4] \div 2^4) % 2^4
UniverseBits(v)      == v[4] \div 2^8

LegalFields(v) ==
    /\ InstanceTypeBits(v) \in {0, 1, 2, 4}
    /\ InstanceFlagsBits(v) \in {0, 32, 64, 128}
    /\ AccountTypeBits(v) \in 0..10
    /\ UniverseBits(v) \in 0..5

\* no accessor of the identifier reaches its expect / unreachable!() branch
AccessorsReturn(v) ==
    /\ account_type(v).ok
    /\ universe(v).ok
    /\ instance(v).ok
    /\ Instance_instance_type(instance(v).val).ok
    /\ Instance_flags(instance(v).val).ok

\* C1: whatever constructor made the identifier and whatever setters were called on
\* it since, its account-type bits are in 0..10, its universe bits in 0..5, its
\* instance-type bits in {0,1,2,4} and its flag bits in {0,0x20,0x40,0x80}, and no
\* accessor panics.
C1_ValidityInvariant == LegalFields(sid) /\ AccessorsReturn(sid)

\* C2: from_steam64 accepts a raw value exactly when its four bit fields are legal,
\* the accepted identifier is the raw value bit for bit, and every valid identifier
\* is accepted again from its own steam64().
C2_FromSteam64Validates ==
    /\ call.op = "from_steam64" =>
          /\ call.ok <=> LegalFields(call.input)
          /\ call.ok => steam64(sid) = call.input
    /\ (call.ok /\ LegalFields(sid)) =>
          /\ from_steam64(steam64(sid)).ok
          /\ from_steam64(steam64(sid)).val = sid

\* C2's case: a raw value with every field non-zero was accepted
C2_Witness ==
    /\ call.op = "from_steam64" /\ call.ok
    /\ InstanceTypeBits(sid) = 4 /\ InstanceFlagsBits(sid) = 64
    /\ AccountTypeBits(sid) = 10 /\ UniverseBits(sid) = 5
    /\ account_id(sid) = U32(12345)

\* the call returned x (it did not panic)
Returns(r, x) == r.ok /\ r.val = x

\* the instance argument was built by Instance::new(type, flags)
BuiltByInstanceNew(inst) ==
    \E t \in InstanceType, f \in InstanceFlags : inst = Instance_new(t, f)

\* C3: SteamID::new(account_id, Instance::new(type, flags), account_type, universe)
\* gives back each of its arguments through the accessors, and lays them out with
\* the account id in bits 0-31, the instance in bits 32-51, the account type in bits
\* 52-55 and the universe in bits 56-63.
C3_NewRoundTrip ==
    (call.op = "new" /\ BuiltByInstanceNew(call.input.instance)) =>
        /\ account_id(sid) = call.input.account_id
        /\ Returns(instance(sid), call.input.instance)
        /\ \E t \in InstanceType, f \in InstanceFlags :
              /\ call.input.instance = Instance_new(t, f)
              /\ Returns(Instance_instance_type(instance(sid).val), t)
              /\ Returns(Instance_flags(instance(sid).val), f)
              /\ InstanceTypeBits(sid) = InstanceTypeDiscr(t)
              /\ InstanceFlagsBits(sid) = InstanceFlagsDiscr(f)
        /\ Returns(account_type(sid), call.input.account_type)
        /\ Returns(universe(sid), call.input.universe)
        /\ <<sid[1], sid[2]>> = call.input.account_id
        /\ AccountTypeBits(sid) = AccountTypeDiscr(call.input.account_type)
        /\ UniverseBits(sid) = UniverseDiscr(call.input.universe)

\* C3's case: an identifier with the largest account id, Web / MMSLobby, AnonUser, RC
C3_Witness ==
    /\ call.op = "new"
    /\ call.input = [account_id |-> <<\hFFFF, \hFFFF>>,
                     instance |-> Instance_new("Web", "MMSLobby"),
                     account_type |-> "AnonUser", universe |-> "RC"]

\* the four fields of an identifier, as the accessors return them
Fields(v) ==
    [account_id |-> account_id(v), instance |-> instance(v),
     account_type |-> account_type(v), universe |-> universe(v)]

\* C4: on a valid identifier each setter makes its accessor return the value set and
\* leaves the other fields as they were; set_instance_type and set_instance_flags
\* change only their half of the instance.
C4_SetterFrame ==
    [][ (LegalFields(sid) /\ call'.op \in Setters) =>
          /\ call'.ok
          /\ call'.op = "set_account_id" =>
                Fields(sid') = [Fields(sid) EXCEPT !.account_id = call'.input]
          /\ call'.op = "set_instance" =>
                Fields(sid') = [Fields(sid) EXCEPT !.instance = Ok(call'.input)]
          /\ call'.op = "set_account_type" =>
                Fields(sid') = [Fields(sid) EXCEPT !.account_type = Ok(call'.input)]
          /\ call'.op = "set_universe" =>
                Fields(sid') = [Fields(sid) EXCEPT !.universe = Ok(call'.input)]
          /\ call'.op = "set_instance_type" =>
                /\ Instance_instance_type(instance(sid').val) = Ok(call'.input)
                /\ Instance_flags(instance(sid').val) = Instance_flags(instance(sid).val)
                /\ [Fields(sid') EXCEPT !.instance = 0] = [Fields(sid) EXCEPT !.instance = 0]
          /\ call'.op = "set_instance_flags" =>
                /\ Instance_flags(instance(sid').val) = Ok(call'.input)
                /\ Instance_instance_type(instance(sid').val)
                      = Instance_instance_type(instance(sid).val)
                /\ [Fields(sid') EXCEPT !.instance = 0] = [Fields(sid) EXCEPT !.instance = 0]
      ]_vars

(***************************************************************************)
(* Text properties.  Numbers read from text are kept in four limbs, so     *)
(* that a value beyond 32 bits is not cut.                                  *)
(***************************************************************************)
\* v * k + d in four limbs
MulAdd(v, k, d) ==
    LET c0 == v[1] * k + d
        c1 == v[2] * k + (c0 \div Limb)
        c2 == v[3] * k + (c1 \div Limb)
        c3 == v[4] * k + (c2 \div Limb)
    IN  <<c0 % Limb, c1 % Limb, c2 % Limb, c3 % Limb>>

\* the number a sequence of decimal digits denotes
RECURSIVE DecimalValue(_)
DecimalValue(ds) ==
    IF ds = <<>> THEN <<0, 0, 0, 0>>
    ELSE MulAdd(DecimalValue(SubSeq(ds, 1, Len(ds) - 1)), 10, DigitValue(ds[Len(ds)]))

\* decimal digits without leading zeros
Canonical(ds) ==
    /\ Len(ds) >= 1
    /\ \A i \in 1..Len(ds) : ds[i] \in AsciiDigits
    /\ Len(ds) = 1 \/ ds[1] # "0"

\* the fields of a text separated by sep
RECURSIVE Split(_, _)
Split(text, sep) ==
    IF \A i \in 1..Len(text) : text[i] # sep THEN <<text>>
    ELSE LET i == CHOOSE i \in 1..Len(text) :
                      text[i] = sep /\ \A j \in 1..(i - 1) : text[j] # sep
         IN  <<SubSeq(text, 1, i - 1)>> \o Split(SubSeq(text, i + 1, Len(text)), sep)

\* C5: an accepted steam2 string gives the account id 2*N + a, as integers, with N its
\* account number and a its auth-server bit (so a string whose 2*N + a does not fit
\* in 32 bits is not accepted).
C5_Steam2AccountIdExact ==
    (call.op = "from_steam2" /\ call.ok) =>
        LET f == Split(call.input, ":")
        IN  U32asU64(account_id(sid)) = MulAdd(DecimalValue(f[3]), 2, DigitValue(f[2][1]))

\* C6: an accepted steam2 string gives account type Individual, instance
\* (Desktop, None) and the universe of its universe digit, with digit 0 read as
\* Public; the universe is never Invalid.
C6_Steam2Fields ==
    (call.op = "from_steam2" /\ call.ok) =>
        LET d == DigitValue(call.input[7])
        IN  /\ Returns(account_type(sid), "Individual")
            /\ Returns(instance(sid), Instance_new("Desktop", "None"))
            /\ Returns(Instance_instance_type(instance(sid).val), "Desktop")
            /\ Returns(Instance_flags(instance(sid).val), "None")
            /\ universe(sid).ok
            /\ UniverseDiscr(universe(sid).val) = (IF d = 0 THEN 1 ELSE d)
            /\ universe(sid).val # "Invalid"

\* C6's case: a string with universe digit 0 was accepted
C6_Witness ==
    /\ call.op = "from_steam2" /\ call.ok
    /\ call.input[7] = "0"
    /\ Returns(universe(sid), "Public")

\* the type-character table of the steam3 grammar
TypeCharTable(c) ==
    CASE c = "U" -> <<"Individual", "None">> [] c = "M" -> <<"Multiseat", "None">>
      [] c = "G" -> <<"GameServer", "None">> [] c = "A" -> <<"AnonGameServer", "None">>
      [] c = "P" -> <<"Pending", "None">> [] c = "C" -> <<"ContentServer", "None">>
      [] c = "g" -> <<"Clan", "None">> [] c = "T" -> <<"Chat", "None">>
      [] c = "a" -> <<"AnonUser", "None">> [] c = "I" -> <<"Invalid", "None">>
      [] c = "i" -> <<"Invalid", "None">>
      [] c = "c" -> <<"Chat", "Clan">> [] c = "L" -> <<"Chat", "Lobby">>

\* the fields of a steam3 text between its brackets
Steam3Fields(text) == Split(SubSeq(text, 2, Len(text) - 1), ":")

\* C7: an accepted steam3 string gives the account type and flags of its type
\* character, the universe of its universe digit, the account id of its account
\* number, and the instance type Desktop (no suffix, Individual), All (no suffix,
\* other types; or a suffix on Clan or Chat) or else the suffix value.
C7_Steam3Fields ==
    (call.op = "from_steam3" /\ call.ok) =>
        LET f   == Steam3Fields(call.input)
            tf  == TypeCharTable(f[1][1])
            it  == Instance_instance_type(instance(sid).val)
        IN  /\ Returns(account_type(sid), tf[1])
            /\ Returns(Instance_flags(instance(sid).val), tf[2])
            /\ universe(sid).ok
            /\ UniverseDiscr(universe(sid).val) = DigitValue(f[2][1])
            /\ U32asU64(account_id(sid)) = DecimalValue(f[3])
            /\ it.ok
            /\ IF Len(f) = 3
               THEN it.val = (IF tf[1] = "Individual" THEN "Desktop" ELSE "All")
               ELSE IF tf[1] \in {"Clan", "Chat"}
               THEN it.val = "All"
               ELSE U64(InstanceTypeDiscr(it.val)) = DecimalValue(f[4])

\* C7's case: a lobby chat with the suffix 2 was accepted
C7_Witness ==
    /\ call.op = "from_steam3" /\ call.ok
    /\ call.input[2] = "L"
    /\ Len(Steam3Fields(call.input)) = 4
    /\ Steam3Fields(call.input)[4] = <<"2">>

\* rendering the identifier and parsing the text gives the identifier back
Steam3RoundTrips(v) ==
    /\ steam3(v).ok
    /\ from_steam3(steam3(v).val).ok
    /\ from_steam3(steam3(v).val).val = v

\* C8 as claimed: every accepted steam3 string s has
\* from_steam3(from_steam3(s).steam3()) = from_steam3(s).
C8_Steam3RoundTrip ==
    (call.op = "from_steam3" /\ call.ok) => Steam3RoundTrips(sid)

\* the account types whose rendering never carries the instance segment
\* (GameServer, Pending, ContentServer, AnonUser, Invalid), with an instance type
\* other than All: what a suffix 1, 2 or 4 on these types parses to
SuffixLostInRendering(v) ==
    /\ AccountTypeBits(v) \in {0, 3, 5, 6, 10}
    /\ InstanceTypeBits(v) # 0

\* C8 as amended: every accepted steam3 string s, except one giving the suffix 1, 2
\* or 4 on GameServer, Pending, ContentServer, AnonUser or Invalid, has
\* from_steam3(from_steam3(s).steam3()) = from_steam3(s).
C8_Steam3RoundTripAmended ==
    (call.op = "from_steam3" /\ call.ok /\ ~SuffixLostInRendering(sid)) =>
        Steam3RoundTrips(sid)

\* C8's case: an Individual with the suffix 2 was accepted
C8_Witness ==
    /\ call.op = "from_steam3" /\ call.ok
    /\ call.input[2] = "U"
    /\ Len(Steam3Fields(call.input)) = 4
    /\ InstanceTypeBits(sid) = 2

\* C9: when the rendering r of a valid identifier is accepted by from_steam3,
\* rendering the parsed identifier gives r again.
C9_Steam3FixedPoint ==
    (call.op = "steam3" /\ LegalFields(sid)) =>
        /\ call.ok
        /\ from_steam3(call.out).ok =>
              Returns(steam3(from_steam3(call.out).val), call.out)

\* C9's case: a ConsoleUser with flags was rendered, and its text parses
C9_Witness ==
    /\ call.op = "steam3" /\ call.ok
    /\ AccountTypeBits(sid) = 9
    /\ InstanceFlagsBits(sid) = 128
    /\ from_steam3(call.out).ok

\* C10: steam2() of a valid Individual or Invalid identifier is
\* "STEAM_<universe>:<account_id & 1>:<account_id >> 1>", and of any other valid
\* identifier the decimal text of its 64-bit value.
C10_Steam2Rendering ==
    (call.op = "steam2" /\ LegalFields(sid)) =>
        /\ call.ok
        /\ IF AccountTypeBits(sid) \in {0, 1}
           THEN LET f == Split(call.out, ":")
                    b == sid[1] % 2
                IN  /\ Len(f) = 3
                    /\ f[1] = <<"S", "T", "E", "A", "M", "_", DigitChar(UniverseBits(sid))>>
                    /\ f[2] = <<DigitChar(b)>>
                    /\ Canonical(f[3])
                    /\ MulAdd(DecimalValue(f[3]), 2, b) = <<sid[1], sid[2], 0, 0>>
           ELSE /\ Canonical(call.out)
                /\ DecimalValue(call.out) = sid

\* C10's case: an Invalid-type identifier with an odd account id and a
\* non-default instance was rendered
C10_Witness ==
    /\ call.op = "steam2" /\ call.ok
    /\ AccountTypeBits(sid) = 0
    /\ account_id(sid) = <<\hFFFF, \hFFFF>>
    /\ InstanceTypeBits(sid) = 4

(***************************************************************************)
(* The text entry point and the parsers' error behaviour                    *)
(***************************************************************************)
\* attempt (a): the text parses as a decimal u64 that passes from_steam64
ParsesAsSteam64(s) == parse_u64(s).ok /\ from_steam64(parse_u64(s).val).ok

\* the first success among (a), (b) from_steam2 and (c) from_steam3, if any
FirstSuccess(s) ==
    IF ParsesAsSteam64(s) THEN from_steam64(parse_u64(s).val)
    ELSE IF from_steam2(s).ok THEN from_steam2(s)
    ELSE IF from_steam3(s).ok THEN from_steam3(s)
    ELSE Err

\* C11: from_str(s) succeeds exactly when s parses as a decimal u64 that passes
\* from_steam64, or from_steam2(s) succeeds, or from_steam3(s) succeeds, and then it
\* returns the first of these successes; a decimal integer that fails validation is
\* accepted by neither from_steam2 nor from_steam3.
C11_FromStrThreeWay ==
    call.op = "from_str" =>
        /\ call.ok <=> (\/ ParsesAsSteam64(call.input)
                        \/ from_steam2(call.input).ok
                        \/ from_steam3(call.input).ok)
        /\ call.ok => sid = FirstSuccess(call.input).val
        /\ (parse_u64(call.input).ok /\ ~call.ok) =>
              ~from_steam2(call.input).ok /\ ~from_steam3(call.input).ok

\* C11's case: a text that is neither a decimal integer nor a steam2 string was
\* accepted on the third attempt, with an instance suffix
C11_Witness ==
    /\ call.op = "from_str" /\ call.ok
    /\ ~parse_u64(call.input).ok
    /\ ~from_steam2(call.input).ok
    /\ Returns(account_type(sid), "Multiseat")
    /\ InstanceTypeBits(sid) = 4

\* the parser returned Ok with a valid identifier, which the caller now holds, or
\* the one error value, and then the caller holds no new identifier
OkOrParseError(r) ==
    IF r.ok THEN LegalFields(r.val) /\ AccessorsReturn(r.val) /\ sid = r.val
    ELSE r = Err /\ sid = SteamID_default

\* the text ends with ']' and has no ']' before its end
ClosedOnce(text) ==
    /\ Len(text) >= 1
    /\ text[Len(text)] = "]"
    /\ \A i \in 1..(Len(text) - 1) : text[i] # "]"

\* C12: on every input (empty, cut at any byte, with a non-digit or non-ASCII byte,
\* with an account or instance number beyond 32 bits) from_steam2 and from_steam3
\* return Ok with a valid identifier or SteamIDParseError and never panic; a steam3
\* text with a byte after ']' or without the closing ']' is rejected.
C12_ParsingTotal ==
    /\ call.op = "from_steam2" =>
          /\ OkOrParseError(from_steam2(call.input))
          /\ call.ok = from_steam2(call.input).ok
    /\ call.op = "from_steam3" =>
          /\ OkOrParseError(from_steam3(call.input))
          /\ call.ok = from_steam3(call.input).ok
          /\ call.ok => ClosedOnce(call.input)

\* C12's case: a steam3 text that is well formed up to its ']' and has a byte after
\* it was rejected
C12_Witness ==
    /\ call.op = "from_steam3" /\ ~call.ok
    /\ call.input = <<"[", "U", ":", "1", ":", "7", "]", "]">>
    /\ from_steam3(SubSeq(call.input, 1, 7)).ok

\* C13: an accepted steam2 or steam3 string has a universe digit in 0..4, so that no
\* parsed identifier has the universe RC.
C13_UniverseDigitGrammar ==
    /\ (call.op = "from_steam2" /\ call.ok) =>
          /\ call.input[7] \in {"0", "1", "2", "3", "4"}
          /\ ~Returns(universe(sid), "RC")
    /\ (call.op = "from_steam3" /\ call.ok) =>
          /\ call.input[4] \in {"0", "1", "2", "3", "4"}
          /\ ~Returns(universe(sid), "RC")

\* C14: an accepted steam3 string has an account number of 1 to 10 digits.
C14_Steam3AccountDigits ==
    (call.op = "from_steam3" /\ call.ok) =>
        Len(Steam3Fields(call.input)[3]) \in 1..10

\* the fourth segment is there exactly for AnonGameServer, Multiseat and an
\* Individual whose instance type is not Desktop
SegmentWhenDue(v, f) ==
    Len(f) = 4 <=> (\/ AccountTypeBits(v) \in {2, 4}
                    \/ AccountTypeBits(v) = 1 /\ InstanceTypeBits(v) # 1)

\* C15: steam3() of a valid identifier carries the fourth segment exactly for
\* AnonGameServer, Multiseat and a non-Desktop Individual, and the number in it is the
\* instance type (0, 1, 2 or 4) whatever the flags are, a number from_steam3 accepts
\* as a suffix.
C15_Steam3InstanceSegment ==
    (call.op = "steam3" /\ LegalFields(sid)) =>
        /\ call.ok
        /\ LET f == Steam3Fields(call.out)
           IN  /\ SegmentWhenDue(sid, f)
               /\ Len(f) = 4 =>
                     /\ f[4] = to_string(U64(InstanceTypeBits(sid)))
                     /\ InstanceType_try_from(U64asU32(DecimalValue(f[4]))).ok

\* C16: visit_u64 gives an identifier exactly for the integers from_steam64 accepts
\* (four legal bit fields), the identifier being the integer, and otherwise an error
\* and no identifier; visit_str gives what the three-way from_str dispatch gives.
C16_DeserializeValidated ==
    /\ call.op = "visit_u64" =>
          /\ call.ok <=> LegalFields(call.input)
          /\ call.ok <=> from_steam64(call.input).ok
          /\ call.ok => sid = call.input
          /\ ~call.ok => sid = SteamID_default
    /\ call.op = "visit_str" =>
          /\ call.ok <=> FirstSuccess(call.input).ok
          /\ call.ok => sid = FirstSuccess(call.input).val
          /\ ~call.ok => sid = SteamID_default

\* C16's case: an integer whose only illegal field is the universe byte was refused
C16_Witness ==
    /\ call.op = "visit_u64" /\ ~call.ok
    /\ UniverseBits(call.input) = 6
    /\ AccountTypeBits(call.input) = 10
    /\ InstanceTypeBits(call.input) = 4 /\ InstanceFlagsBits(call.input) = 64

=============================================================================
